---- MODULE Spec2Model ----
(***************************************************************************)
(* Model of organize_crates.py (Sharding Classifier, Directory             *)
(* Provisioner, File Relocator) and organize_metadata.py (Metadata         *)
(* Indexer).                                                               *)
(*                                                                         *)
(* A Python str is a sequence of characters; a character is a TLA+ string  *)
(* naming one code point ("a", "7", "-", or "uFB06" for U+FB06).           *)
(***************************************************************************)
EXTENDS Naturals, Integers, Sequences, FiniteSets, TLC

\* ------------------------------------------------------------------------
\* Bounds of the model
\* ------------------------------------------------------------------------
MaxNameLen == 2

\* ------------------------------------------------------------------------
\* Python string primitives used by organize_crates.py
\* ------------------------------------------------------------------------
ascii_uppercase ==
  <<"A","B","C","D","E","F","G","H","I","J","K","L","M",
    "N","O","P","Q","R","S","T","U","V","W","X","Y","Z">>

ascii_lowercase ==
  <<"a","b","c","d","e","f","g","h","i","j","k","l","m",
    "n","o","p","q","r","s","t","u","v","w","x","y","z">>

ascii_digits == <<"0","1","2","3","4","5","6","7","8","9">>

Range(s) == {s[i] : i \in 1..Len(s)}

Min(a, b) == IF a < b THEN a ELSE b

\* Code points with the Unicode decimal/digit property that str.isdigit()
\* accepts: the ASCII digits, SUPERSCRIPT TWO and ARABIC-INDIC DIGIT THREE.
UnicodeDigits == Range(ascii_digits) \cup {"u00B2", "u0663"}

\* Characters file names are drawn from: ASCII letters at the edges of the
\* chunks, ASCII digits at the edges of the bands, punctuation, and non-ASCII
\* code points (e-acute, sharp s, the ligature st U+FB06, superscript two,
\* Arabic-Indic three).
Chars ==
  {"A", "B", "D", "E", "Q", "S", "T", "Y", "Z"} \cup {"a", "b", "y", "z"}
    \cup {"0", "2", "3", "5", "6", "7", "9"}
    \cup {"-", ".", "u00E9", "u00DF", "uFB06", "u00B2", "u0663"}

\* str.upper() of a one-character string; the result is a string and may
\* be longer than one character (full Unicode case mapping).
str_upper(c) ==
  IF \E i \in 1..Len(ascii_lowercase) : ascii_lowercase[i] = c
    THEN <<ascii_uppercase[CHOOSE i \in 1..Len(ascii_lowercase) :
                              ascii_lowercase[i] = c]>>
  ELSE IF c = "uFB06" THEN <<"S", "T">>
  ELSE IF c = "u00DF" THEN <<"S", "S">>
  ELSE IF c = "u00E9" THEN <<"u00C9">>
  ELSE <<c>>

\* Python's `x in s` for two strings: x is a contiguous substring of s.
str_in(x, s) ==
  \E i \in 0..(Len(s) - Len(x)) : SubSeq(s, i + 1, i + Len(x)) = x

\* Python's `x in l` for a list l: some element equals x.
list_in(x, l) == \E i \in 1..Len(l) : l[i] = x

\* str.isdigit(): non-empty and every character is a digit.
str_isdigit(x) == Len(x) > 0 /\ \A i \in 1..Len(x) : x[i] \in UnicodeDigits

S_0_9 == <<"0", "-", "9">>

S_OTHER == <<"O", "T", "H", "E", "R">>

\* ------------------------------------------------------------------------
\* get_letter_groups
\* ------------------------------------------------------------------------
chunk_size == 4

\* range(0, len(second_letters), chunk_size)
chunk_starts == {i \in 0..(Len(ascii_uppercase) - 1) : i % chunk_size = 0}

\* a slice that runs one letter into the next chunk
chunk_at_overlap(i) ==
  SubSeq(ascii_uppercase, i + 1, Min(i + chunk_size + 1, Len(ascii_uppercase)))

\* second_letters[i:i+chunk_size]
chunk_at(i) ==
  SubSeq(ascii_uppercase, i + 1, Min(i + chunk_size, Len(ascii_uppercase)))

\* the (group_name, group_prefix, group_range) tuple built from one chunk
letter_group(first_letter, chunk) ==
  [name   |-> <<first_letter, chunk[1], "-", first_letter, chunk[Len(chunk)]>>,
   prefix |-> <<first_letter>>,
   range  |-> chunk]

\* the groups list of one first letter, in the order the loop appends them
groups_of(first_letter) ==
  [k \in 1..Cardinality(chunk_starts) |->
     letter_group(first_letter, chunk_at((k - 1) * chunk_size))]

number_groups ==
  << [name |-> <<"0","-","2">>, prefix |-> <<>>,
      range |-> << <<"0">>, <<"1">>, <<"2">> >>],
     [name |-> <<"3","-","5">>, prefix |-> <<>>,
      range |-> << <<"3">>, <<"4">>, <<"5">> >>],
     [name |-> <<"6","-","9">>, prefix |-> <<>>,
      range |-> << <<"6">>, <<"7">>, <<"8">>, <<"9">> >>] >>

other_groups == << [name |-> S_OTHER, prefix |-> <<>>, range |-> <<>>] >>

first_levels ==
  [i \in 1..(Len(ascii_uppercase) + 2) |->
     IF i <= Len(ascii_uppercase) THEN <<ascii_uppercase[i]>>
     ELSE IF i = Len(ascii_uppercase) + 1 THEN S_0_9 ELSE S_OTHER]

get_letter_groups ==
  [fl \in Range(first_levels) |->
     IF fl = S_0_9 THEN number_groups
     ELSE IF fl = S_OTHER THEN other_groups
     ELSE groups_of(fl[1])]

\* ------------------------------------------------------------------------
\* get_target_directory
\* ------------------------------------------------------------------------
Returned(p) == [exc |-> "none", path |-> p]

Raised(e) == [exc |-> e, path |-> <<>>]

\* os.path.join(base_dir, first, second)
path_join(base_dir, first, second) == <<base_dir, first, second>>

\* first group, in list order, whose range contains x; 0 if the loop ends
first_match_str(groups, x) ==
  IF \E k \in 1..Len(groups) : str_in(x, groups[k].range)
    THEN CHOOSE k \in 1..Len(groups) :
           /\ str_in(x, groups[k].range)
           /\ \A j \in 1..(k - 1) : ~str_in(x, groups[j].range)
    ELSE 0

first_match_list(groups, x) ==
  IF \E k \in 1..Len(groups) : list_in(x, groups[k].range)
    THEN CHOOSE k \in 1..Len(groups) :
           /\ list_in(x, groups[k].range)
           /\ \A j \in 1..(k - 1) : ~list_in(x, groups[j].range)
    ELSE 0

first_level_of(first_char) ==
  IF str_in(first_char, ascii_uppercase) THEN first_char
  ELSE IF str_isdigit(first_char) THEN S_0_9
  ELSE S_OTHER

second_char_of(filename) ==
  IF Len(filename) > 1 THEN str_upper(filename[2]) ELSE <<"A">>

get_target_directory(filename, base_dir) ==
  IF filename = <<>> THEN Returned(path_join(base_dir, S_OTHER, S_OTHER))
  ELSE
    LET first_char    == str_upper(filename[1])
        first_level   == first_level_of(first_char)
        letter_groups == get_letter_groups
    IN  IF str_in(first_level, ascii_uppercase) THEN
          LET second_char == second_char_of(filename)
          IN  IF first_level \notin DOMAIN letter_groups
                THEN Raised("KeyError")
              ELSE
                LET groups == letter_groups[first_level]
                    k == IF str_in(second_char, ascii_uppercase)
                           THEN first_match_str(groups, second_char)
                           ELSE 0
                IN  IF k > 0
                      THEN Returned(path_join(base_dir, first_level,
                                              groups[k].name))
                      ELSE Returned(path_join(base_dir, first_level,
                                              groups[1].name))
        ELSE IF first_level = S_0_9 THEN
          LET groups == letter_groups[S_0_9]
              k == first_match_list(groups, first_char)
          IN  IF k > 0
                THEN Returned(path_join(base_dir, S_0_9, groups[k].name))
                ELSE Returned(path_join(base_dir, S_0_9, groups[1].name))
        ELSE Returned(path_join(base_dir, S_OTHER, S_OTHER))

\* ------------------------------------------------------------------------
\* create_directories
\* ------------------------------------------------------------------------
\* the directories create_directories makes for one first level
dirs_of_first_only(base_dir, letter_groups_, fl) == {<<base_dir, fl>>}

dirs_of_first(base_dir, letter_groups_, fl) ==
  {<<base_dir, fl>>}
    \cup {<<base_dir, fl, letter_groups_[fl][k].name>> :
            k \in 1..Len(letter_groups_[fl])}

\* os.makedirs(second_dir) raises NotADirectoryError when first_dir exists
\* as a regular file: os.path.exists(first_dir) is then true, the first
\* level is not created, and the second-level mkdir fails.
blocked_first(base_dir, dirs_, top_, i) ==
  /\ first_levels[i] \in top_
  /\ <<base_dir, first_levels[i]>> \notin dirs_

\* the whole loop: directories afterwards and the exception, if any
create_directories(base_dir, dirs_, top_) ==
  LET lg      == get_letter_groups
      n       == Len(first_levels)
      blocked == {i \in 1..n : blocked_first(base_dir, dirs_, top_, i)}
      stop    == IF blocked = {} THEN n + 1
                 ELSE CHOOSE i \in blocked : \A j \in blocked : i <= j
  IN  [exc  |-> IF blocked = {} THEN "none" ELSE "NotADirectoryError",
       dirs |-> dirs_ \cup UNION {dirs_of_first(base_dir, lg, first_levels[i]) :
                                    i \in 1..(stop - 1)}]

\* ------------------------------------------------------------------------
\* State
\* ------------------------------------------------------------------------
VARIABLES
  \* one call of get_target_directory
  filename,       \* its argument
  letter_groups,  \* the table the call obtains from get_letter_groups()
  target,         \* its outcome
  cpc,            \* its position
  \* the file system under source_dir
  top_files,      \* names of the regular files at the top level
  dirs,           \* paths of the directories under source_dir
  placed,         \* <<directory path, name>> of the files inside buckets
  \* organize_files
  dry_run,
  pc,             \* position of the coordinating thread
  files,          \* the snapshot of os.listdir, filtered by isfile
  total_files,
  move_args,
  next_task,      \* head of the executor's work queue
  worker,         \* task each pool thread is running, 0 when idle
  results,        \* result of each task: "none" until it returns
  success_count,
  first_level_counts,
  second_level_counts,
  \* organize_metadata: the index tree, the mirror tree and the run
  index_tree,     \* the files under index_dir, in the order os.walk meets them
  archives,       \* <<directory, name>> of the crate files under mirror_dir
  sidecars,       \* content of every other file under mirror_dir, by path
  metadata_files,
  total_versions,
  unit,           \* what each pool thread of the indexer is doing
  wlog,           \* every sidecar write performed: unit, line, path
  outcome,        \* what became of each line of each unit
  \* observation
  attempts,       \* calls of shutil.move made for each task
  run,            \* number of the current run
  start,          \* the tree when the current run started
  prev            \* how the previous run ended

classVars == <<filename, letter_groups, target, cpc>>

fsVars == <<top_files, dirs, placed>>

runVars ==
  <<dry_run, pc, files, total_files, move_args, next_task, worker, results,
    success_count, first_level_counts, second_level_counts, attempts, run,
    start, prev>>

idxVars ==
  <<index_tree, archives, sidecars, metadata_files, total_versions, unit,
    wlog, outcome>>

vars == <<classVars, fsVars, runVars, idxVars>>

BaseDir == "base"

\* all strings of at most n characters
RECURSIVE StringsUpTo(_)
StringsUpTo(n) ==
  IF n = 0 THEN {<<>>}
  ELSE LET shorter == StringsUpTo(n - 1)
       IN  shorter \cup {Append(s, c) : s \in {t \in shorter : Len(t) = n - 1},
                                         c \in Chars}

\* every ordering of a finite set, as sequences
Orderings(S) ==
  {q \in [1..Cardinality(S) -> S] : \A i, j \in 1..Cardinality(S) :
                                      q[i] = q[j] => i = j}

NoPrev == [ran |-> FALSE, full |-> FALSE, dry |-> FALSE, total |-> 0,
           top |-> {}, dirs |-> {}, placed |-> {}]

ClassOff ==
  /\ filename = <<>>
  /\ letter_groups = <<>>
  /\ target = Raised("pending")
  /\ cpc = "off"

RelocOff ==
  /\ top_files = {}
  /\ dirs = {}
  /\ placed = {}
  /\ dry_run = FALSE
  /\ pc = "off"
  /\ files = <<>>
  /\ total_files = 0
  /\ move_args = <<>>
  /\ next_task = 1
  /\ worker = <<>>
  /\ results = <<>>
  /\ success_count = 0
  /\ first_level_counts = <<>>
  /\ second_level_counts = <<>>
  /\ attempts = <<>>
  /\ run = 0
  /\ start = NoPrev
  /\ prev = NoPrev

IndexOff ==
  /\ index_tree = <<>>
  /\ archives = {}
  /\ sidecars = <<>>
  /\ metadata_files = <<>>
  /\ total_versions = 0
  /\ unit = <<>>
  /\ wlog = {}
  /\ outcome = <<>>

\* ------------------------------------------------------------------------
\* Specification of one classification call
\* ------------------------------------------------------------------------
ClassifyInit ==
  /\ filename \in StringsUpTo(MaxNameLen)
  /\ letter_groups = <<>>
  /\ target = Raised("pending")
  /\ cpc = "call"
  /\ RelocOff
  /\ IndexOff

\* line 95: letter_groups = get_letter_groups(); lines 78-124: the call
Classify ==
  /\ cpc = "call"
  /\ letter_groups' = IF filename = <<>> THEN <<>> ELSE get_letter_groups
  /\ target' = get_target_directory(filename, BaseDir)
  /\ cpc' = "done"
  /\ UNCHANGED <<filename, fsVars, runVars, idxVars>>

ClassifyNext == Classify

SpecClassify == ClassifyInit /\ [][ClassifyNext]_vars

\* ------------------------------------------------------------------------
\* organize_files and move_file
\* ------------------------------------------------------------------------
MaxFiles == 2

MaxRuns == 2

\* max_workers of the ThreadPoolExecutor
Workers == 2

\* names a mirror directory may hold at its top level: crate-like names,
\* names opening with a digit, punctuation or a non-ASCII letter, and a
\* name equal to a bucket directory's
FilePool ==
  { <<"a", "b">>, <<"z">>, <<"7", "z">>, <<"-">>, <<"a", "uFB06">>,
    <<"uFB06", "a">>, <<"B">> }

all_bucket_dirs ==
  UNION {dirs_of_first(BaseDir, get_letter_groups, first_levels[i]) :
           i \in 1..Len(first_levels)}

RelocInit ==
  /\ ClassOff
  /\ IndexOff
  /\ top_files \in {S \in SUBSET FilePool : Cardinality(S) <= MaxFiles}
  /\ dirs \in {{}, {d \in all_bucket_dirs : d[2] \notin top_files}}
  /\ placed = {}
  /\ dry_run \in BOOLEAN
  /\ pc = "list"
  /\ files = <<>>
  /\ total_files = 0
  /\ move_args = <<>>
  /\ next_task = 1
  /\ worker = [w \in 1..Workers |-> 0]
  /\ results = <<>>
  /\ success_count = 0
  /\ first_level_counts = <<>>
  /\ second_level_counts = <<>>
  /\ attempts = <<>>
  /\ run = 1
  /\ start = NoPrev
  /\ prev = NoPrev

\* os.listdir(source_dir): every entry of the top level, files and
\* directories alike
listdir_all(top_, dirs_) == top_ \cup {d[2] : d \in {e \in dirs_ : Len(e) = 2}}

\* os.listdir(source_dir) filtered by os.path.isfile
listdir_files(top_, dirs_) == {f \in listdir_all(top_, dirs_) : f \in top_}

\* lines 142-148: the snapshot, in the arbitrary order os.listdir gives
ListFiles ==
  /\ pc = "list"
  /\ files' \in Orderings(listdir_files(top_files, dirs))
  /\ total_files' = Len(files')
  /\ start' = [ran |-> TRUE, full |-> FALSE, dry |-> dry_run,
               total |-> Len(files'), top |-> top_files, dirs |-> dirs,
               placed |-> placed]
  /\ pc' = IF dry_run THEN "prepare" ELSE "provision"
  /\ UNCHANGED <<classVars, idxVars, fsVars, dry_run, move_args, next_task, worker,
                 results, success_count, first_level_counts,
                 second_level_counts, attempts, run, prev>>

\* lines 151-152: create_directories(source_dir); an exception of
\* os.makedirs is caught nowhere and ends the run
Provision ==
  /\ pc = "provision"
  /\ LET r == create_directories(BaseDir, dirs, top_files)
     IN  /\ dirs' = r.dirs
         /\ pc' = IF r.exc = "none" THEN "prepare" ELSE "raised"
  /\ UNCHANGED <<classVars, idxVars, top_files, placed, dry_run, files, total_files,
                 move_args, next_task, worker, results, success_count,
                 first_level_counts, second_level_counts, attempts, run,
                 start, prev>>

\* number of entries of move_args sent to a directory satisfying P
CountArgs(args, key(_), k) ==
  Cardinality({i \in 1..Len(args) : key(args[i]) = k})

FirstKey(a) == a.target_dir[Len(a.target_dir) - 1]

SecondKey(a) ==
  <<a.target_dir[Len(a.target_dir) - 1], a.target_dir[Len(a.target_dir)]>>

\* lines 155-159: the loop building move_args; get_target_directory is
\* called outside any try block, so its exception ends the run.
\* Lines 162-165: the pool is created and executor.map submits every task.
PrepareArgs ==
  /\ pc = "prepare"
  /\ LET cls == [i \in 1..Len(files) |->
                   get_target_directory(files[i], BaseDir)]
     IN  IF \E i \in 1..Len(files) : cls[i].exc # "none"
           THEN /\ pc' = "raised"
                /\ UNCHANGED <<move_args, results, attempts>>
           ELSE /\ move_args' = [i \in 1..Len(files) |->
                                   [file_path  |-> <<BaseDir, files[i]>>,
                                    target_dir |-> cls[i].path]]
                /\ results' = [i \in 1..Len(files) |-> "none"]
                /\ attempts' = [i \in 1..Len(files) |-> 0]
                /\ pc' = IF dry_run THEN "tally" ELSE "moving"
  /\ next_task' = 1
  /\ success_count' = 0
  /\ UNCHANGED <<classVars, idxVars, fsVars, dry_run, files, total_files, worker,
                 first_level_counts, second_level_counts, run, start, prev>>

\* a pool thread takes the next task of the queue
WorkerPick(w) ==
  /\ pc = "moving"
  /\ worker[w] = 0
  /\ next_task <= Len(move_args)
  /\ worker' = [worker EXCEPT ![w] = next_task]
  /\ next_task' = next_task + 1
  /\ UNCHANGED <<classVars, idxVars, fsVars, dry_run, pc, files, total_files,
                 move_args, results, success_count, first_level_counts,
                 second_level_counts, attempts, run, start, prev>>

\* os.path.basename(file_path)
basename(file_path) == file_path[Len(file_path)]

\* os.path.join(target_dir, filename), kept as <<directory, name>>
target_path(target_dir, name) == <<target_dir, name>>

\* a copy that leaves the source where it was
top_after_copy(top_, name) == top_

\* shutil.move removes the source from the top level
top_after_move(top_, name) == top_ \ {name}

\* shutil.move can succeed: the source is there and the directory of the
\* target exists
can_move(top_, dirs_, file_path, tp) ==
  /\ basename(file_path) \in top_
  /\ tp[1] \in dirs_

\* lines 126-134: move_file, shutil.move succeeds
MoveOK(w) ==
  /\ pc = "moving"
  /\ worker[w] # 0
  /\ LET i  == worker[w]
         fp == move_args[i].file_path
         tp == target_path(move_args[i].target_dir, basename(fp))
     IN  /\ can_move(top_files, dirs, fp, tp)
         /\ top_files' = top_after_move(top_files, basename(fp))
         /\ placed' = placed \cup {tp}
         /\ results' = [results EXCEPT ![i] = "True"]
         /\ attempts' = [attempts EXCEPT ![i] = @ + 1]
  /\ worker' = [worker EXCEPT ![w] = 0]
  /\ UNCHANGED <<classVars, idxVars, dirs, dry_run, pc, files, total_files, move_args,
                 next_task, success_count, first_level_counts,
                 second_level_counts, run, start, prev>>

\* lines 135-137: shutil.move raises (the operating system refuses the
\* rename, or source or target directory is missing); the error is logged
\* and the task returns False
MoveFail(w) ==
  /\ pc = "moving"
  /\ worker[w] # 0
  /\ results' = [results EXCEPT ![worker[w]] = "False"]
  /\ attempts' = [attempts EXCEPT ![worker[w]] = @ + 1]
  /\ worker' = [worker EXCEPT ![w] = 0]
  /\ UNCHANGED <<classVars, idxVars, fsVars, dry_run, pc, files, total_files,
                 move_args, next_task, success_count, first_level_counts,
                 second_level_counts, run, start, prev>>

\* sum(results)
sum_results(res) == Cardinality({i \in 1..Len(res) : res[i] = "True"})

\* lines 165-166, 195-198: list(executor.map(...)) has every result, the
\* with block ends, success_count = sum(results), return
Collect ==
  /\ pc = "moving"
  /\ \A i \in 1..Len(results) : results[i] # "none"
  /\ \A w \in 1..Workers : worker[w] = 0
  /\ success_count' = sum_results(results)
  /\ pc' = "done"
  /\ UNCHANGED <<classVars, idxVars, fsVars, dry_run, files, total_files, move_args,
                 next_task, worker, results, first_level_counts,
                 second_level_counts, attempts, run, start, prev>>

\* lines 167-193, 198: the dry run counts the files per first-level and per
\* second-level directory and returns
DryTally ==
  /\ pc = "tally"
  /\ first_level_counts' =
       [k \in {FirstKey(move_args[i]) : i \in 1..Len(move_args)} |->
          CountArgs(move_args, FirstKey, k)]
  /\ second_level_counts' =
       [k \in {SecondKey(move_args[i]) : i \in 1..Len(move_args)} |->
          CountArgs(move_args, SecondKey, k)]
  /\ pc' = "done"
  /\ UNCHANGED <<classVars, idxVars, fsVars, dry_run, files, total_files, move_args,
                 next_task, worker, results, success_count, attempts, run,
                 start, prev>>

\* the tool is started again on the tree the run left
Rerun ==
  /\ pc = "done"
  /\ run < MaxRuns
  /\ prev' = [ran |-> TRUE,
              full |-> ~dry_run /\ success_count = total_files,
              dry |-> dry_run, total |-> total_files,
              top |-> top_files, dirs |-> dirs, placed |-> placed]
  /\ run' = run + 1
  /\ dry_run' \in BOOLEAN
  /\ pc' = "list"
  /\ files' = <<>>
  /\ total_files' = 0
  /\ move_args' = <<>>
  /\ next_task' = 1
  /\ results' = <<>>
  /\ success_count' = 0
  /\ first_level_counts' = <<>>
  /\ second_level_counts' = <<>>
  /\ attempts' = <<>>
  /\ start' = NoPrev
  /\ UNCHANGED <<classVars, idxVars, fsVars, worker>>

RelocNext ==
  \/ ListFiles
  \/ Provision
  \/ PrepareArgs
  \/ \E w \in 1..Workers : WorkerPick(w)
  \/ \E w \in 1..Workers : MoveOK(w)
  \/ \E w \in 1..Workers : MoveFail(w)
  \/ Collect
  \/ DryTally
  \/ Rerun

SpecRelocator == RelocInit /\ [][RelocNext]_vars

\* ------------------------------------------------------------------------
\* organize_metadata.py: strings and JSON
\* ------------------------------------------------------------------------
N_foo == <<"f","o","o">>

N_bar == <<"b","a","r">>

N_git == <<".","g","i","t">>

N_config_json == <<"c","o","n","f","i","g",".","j","s","o","n">>

N_README_md == <<"R","E","A","D","M","E",".","m","d">>

N_HEAD == <<"H","E","A","D">>

V_1 == <<"1">>

DOT_CRATE == <<".","c","r","a","t","e">>

DOT_METADATA_JSON == <<".","m","e","t","a","d","a","t","a",".","j","s","o","n">>

\* line 115: the substrings that make os.walk's root skipped
skip_markers ==
  { <<".","g","i","t">>, <<".","v","e","n","v">>, <<"s","i","t","e","-","p","a","c","k","a","g","e","s">>, <<"p","i","p">>, <<"p","y","t","h","o","n">>, <<"_","_","p","y","c","a","c","h","e","_","_">> }

\* line 124: the suffixes of files that are no metadata files
skip_suffixes ==
  { <<".","p","y">>, <<".","p","y","c">>, <<".","p","y","d">>, <<".","d","l","l">>, <<".","e","x","e">>, <<".","b","a","t">>, <<".","s","h">>, <<".","m","d">>, <<".","t","x","t">>,
    <<".","h","t","m","l">> }

\* str.endswith(suffix)
str_endswith(x, suffix) ==
  /\ Len(suffix) <= Len(x)
  /\ SubSeq(x, Len(x) - Len(suffix) + 1, Len(x)) = suffix

\* A line of an index file, by what the code asks of its text: whether
\* line.strip() is empty, whether the stripped text starts with "{" and
\* ends with "}", whether it is valid JSON, and the members of the JSON
\* object in the order they are written.
Line(blank_, open_, close_, valid_, members_) ==
  [blank |-> blank_, open |-> open_, close |-> close_, valid |-> valid_,
   members |-> members_]

\* fails the structural filter: text that is no {...} object
L_text == Line(FALSE, FALSE, FALSE, FALSE, <<>>)

\* passes the structural filter, is no JSON: {"vers": 1.0.0}
L_bad == Line(FALSE, TRUE, TRUE, FALSE, <<>>)

L_novers == Line(FALSE, TRUE, TRUE, TRUE, << <<"name", N_foo>> >>)

L_recA ==
  Line(FALSE, TRUE, TRUE, TRUE,
       << <<"name", N_foo>>, <<"vers", V_1>>, <<"cksum", <<"x">> >> >>)

L_recB ==
  Line(FALSE, TRUE, TRUE, TRUE,
       << <<"name", N_foo>>, <<"vers", V_1>>, <<"cksum", <<"y">> >> >>)

LinePool == {L_text, L_bad, L_novers, L_recA, L_recB}

None == <<"None">>

\* the dict a JSON object parses to: keys in the order of their first
\* occurrence, each with the value of its last occurrence
RECURSIVE dict_of(_)
dict_of(members) ==
  IF members = <<>> THEN <<>>
  ELSE LET n    == Len(members)
           init == dict_of(SubSeq(members, 1, n - 1))
           m    == members[n]
       IN  IF \E i \in 1..Len(init) : init[i][1] = m[1]
             THEN [i \in 1..Len(init) |->
                     IF init[i][1] = m[1] THEN m ELSE init[i]]
             ELSE Append(init, m)

\* json.loads(line)
json_loads(line) ==
  IF line.valid THEN [exc |-> "none", value |-> dict_of(line.members)]
  ELSE [exc |-> "JSONDecodeError", value |-> <<>>]

\* dict.get(key)
dict_get(d, key) ==
  IF \E i \in 1..Len(d) : d[i][1] = key
    THEN d[CHOOSE i \in 1..Len(d) : d[i][1] = key][2]
    ELSE None

\* json.dump(metadata, out_f, indent=2): the text of the file
json_dump(d) == [kind |-> "json", members |-> d]

\* a file opened for writing and not written yet
Truncated == [kind |-> "empty", members |-> <<>>]

\* what two unsynchronised writers of one file can leave behind
Torn == [kind |-> "torn", members |-> <<>>]

\* Python's truth value of the "vers" field
falsy(version) == version = None \/ version = <<>>

\* ------------------------------------------------------------------------
\* find_crate_file
\* ------------------------------------------------------------------------
\* the directories os.walk(mirror_dir) visits, in its order: the top level
\* first, then the buckets
MirrorDirs == << <<"mirror">>, <<"mirror", "F", "FM-FP">> >>

\* file names os.walk lists in one directory
files_in(d, archives_, sidecars_) ==
  {a[2] : a \in {b \in archives_ : b[1] = d}}
    \cup {q[2] : q \in {r \in DOMAIN sidecars_ : r[1] = d}}

expected_filename(crate_name, version) ==
  crate_name \o <<"-">> \o version \o DOT_CRATE

\* lines 21-32: the first file, in walk order, named as expected
find_crate_file(crate_name, version, archives_, sidecars_) ==
  LET expected == expected_filename(crate_name, version)
      hits == {k \in 1..Len(MirrorDirs) :
                 expected \in files_in(MirrorDirs[k], archives_, sidecars_)}
  IN  IF hits = {} THEN None
      ELSE <<MirrorDirs[CHOOSE k \in hits : \A j \in hits : k <= j],
             expected>>

\* lines 84-85: the sidecar path beside the crate file
metadata_output_path(crate_file_path, crate_name, version) ==
  <<crate_file_path[1],
    crate_name \o <<"-">> \o version \o DOT_METADATA_JSON>>

\* ------------------------------------------------------------------------
\* organize_metadata: the walk of the index
\* ------------------------------------------------------------------------
IndexFile(root_, file_, lines_) ==
  [root |-> root_, file |-> file_, lines |-> lines_]

\* line 115: any(d in root for d in [...]); root is a path, a marker holds
\* no separator, so it lies inside one component
root_skipped(root) ==
  \E i \in 1..Len(root) : \E m \in skip_markers : str_in(m, root[i])

\* lines 118-127
file_selected(file) ==
  /\ file # N_config_json
  /\ \A sfx \in skip_suffixes : ~str_endswith(file, sfx)

RECURSIVE select_files(_)
select_files(tree) ==
  IF tree = <<>> THEN <<>>
  ELSE LET e    == tree[Len(tree)]
           init == select_files(SubSeq(tree, 1, Len(tree) - 1))
       IN  IF ~root_skipped(e.root) /\ file_selected(e.file)
             THEN Append(init, e) ELSE init

\* ------------------------------------------------------------------------
\* organize_metadata and process_metadata_file
\* ------------------------------------------------------------------------
\* lines of index files in the whole tree
MaxLines == 2

IdleUnit ==
  [task |-> 0, i |-> 0, success_count |-> 0, total_count |-> 0,
   stage |-> "idle", path |-> None]

INoPrev ==
  [ran |-> FALSE, dry |-> FALSE, success |-> 0, versions |-> 0,
   failures |-> 0, sidecars |-> <<>>]

RECURSIVE LinesUpTo(_)
LinesUpTo(n) ==
  IF n = 0 THEN {<<>>}
  ELSE LET shorter == LinesUpTo(n - 1)
       IN  shorter \cup {Append(q, l) : q \in {t \in shorter : Len(t) = n - 1},
                                         l \in LinePool}

\* The index: a gitlink file, config.json and a README at the top, a file
\* inside .git, and two package files; the second package file carries the
\* name of the first or another one.
IndexTrees ==
  { << IndexFile(<<<<"i","d","x">>>>, N_git, <<L_text>>),
       IndexFile(<<<<"i","d","x">>>>, N_config_json, <<L_recA>>),
       IndexFile(<<<<"i","d","x">>>>, N_README_md, <<L_text>>),
       IndexFile(<<<<"i","d","x">>, N_git>>, N_HEAD, <<L_recA>>),
       IndexFile(<<<<"i","d","x">>, <<"f","o">>>>, N_foo, c1),
       IndexFile(<<<<"i","d","x">>, <<"o","l">>>>, n2, c2) >> :
      c1 \in LinesUpTo(MaxLines),
      c2 \in LinesUpTo(MaxLines),
      n2 \in {N_foo, N_bar} }

\* the mirror: bar-1.crate at the top level; foo-1.crate at the top level,
\* in its bucket, in both places or nowhere
MirrorTrees ==
  { {<<MirrorDirs[1], expected_filename(N_bar, V_1)>>} \cup A :
      A \in SUBSET { <<MirrorDirs[1], expected_filename(N_foo, V_1)>>,
                     <<MirrorDirs[2], expected_filename(N_foo, V_1)>> } }

TotalLines(tree) == Len(tree[5].lines) + Len(tree[6].lines)

IndexInit ==
  /\ ClassOff
  /\ top_files = {}
  /\ dirs = {}
  /\ placed = {}
  /\ files = <<>>
  /\ total_files = 0
  /\ move_args = <<>>
  /\ worker = <<>>
  /\ first_level_counts = <<>>
  /\ second_level_counts = <<>>
  /\ attempts = <<>>
  /\ start = NoPrev
  /\ index_tree \in {t \in IndexTrees : TotalLines(t) <= MaxLines}
  /\ archives \in MirrorTrees
  /\ sidecars = <<>>
  /\ dry_run \in BOOLEAN
  /\ pc = "walk"
  /\ metadata_files = <<>>
  /\ next_task = 1
  /\ unit = [w \in 1..Workers |-> IdleUnit]
  /\ results = <<>>
  /\ success_count = 0
  /\ total_versions = 0
  /\ wlog = {}
  /\ outcome = <<>>
  /\ run = 1
  /\ prev = INoPrev

relocOnly ==
  <<fsVars, files, total_files, move_args, worker, first_level_counts,
    second_level_counts, attempts, start>>

\* lines 111-141: the walk collects the metadata files; the pool is created
\* and executor.map submits one task per file
Walk ==
  /\ pc = "walk"
  /\ metadata_files' = select_files(index_tree)
  /\ results' = [t \in 1..Len(metadata_files') |-> None]
  /\ outcome' = [t \in 1..Len(metadata_files') |->
                   [i \in 1..Len(metadata_files'[t].lines) |-> "unread"]]
  /\ next_task' = 1
  /\ success_count' = 0
  /\ total_versions' = 0
  /\ pc' = "processing"
  /\ UNCHANGED <<classVars, relocOnly, index_tree, archives, sidecars,
                 dry_run, unit, wlog, run, prev>>

\* lines 38-45: the files process_metadata_file returns (0, 0) for at once
\* (os.path.isdir is false of every entry the walk lists as a file)
unit_skips(f) == f.file \in {N_git, N_config_json}

\* lines 36-56: a pool thread takes the next task, applies the early
\* returns and reads the lines of the file; the threads of the pool are
\* interchangeable, the idle one of lowest number takes the task
UnitStart(w) ==
  /\ pc = "processing"
  /\ unit[w].stage = "idle"
  /\ \A v \in 1..(w - 1) : unit[v].stage # "idle"
  /\ next_task <= Len(metadata_files)
  /\ next_task' = next_task + 1
  /\ IF unit_skips(metadata_files[next_task])
       THEN /\ results' = [results EXCEPT ![next_task] = <<0, 0>>]
            /\ UNCHANGED unit
       ELSE /\ unit' = [unit EXCEPT ![w] =
                          [IdleUnit EXCEPT !.task = next_task, !.i = 1,
                                           !.stage = "line"]]
            /\ UNCHANGED results
  /\ UNCHANGED <<classVars, relocOnly, index_tree, archives, sidecars,
                 dry_run, pc, metadata_files, success_count, total_versions,
                 wlog, outcome, run, prev>>

\* a JSONDecodeError that leaves the loop over the lines
line_action_abort(line) ==
  IF line.blank THEN "skip_blank"
  ELSE IF ~(line.open /\ line.close) THEN "skip_filtered"
  ELSE IF json_loads(line).exc # "none" THEN "abort"
  ELSE IF falsy(dict_get(json_loads(line).value, "vers"))
    THEN "skip_noversion"
  ELSE "resolve"

\* lines 58-72, 97-98: what the loop body does with one line before it
\* counts it
line_action(line) ==
  IF line.blank THEN "skip_blank"
  ELSE IF ~(line.open /\ line.close) THEN "skip_filtered"
  ELSE IF json_loads(line).exc # "none" THEN "skip_malformed"
  ELSE IF falsy(dict_get(json_loads(line).value, "vers"))
    THEN "skip_noversion"
  ELSE "resolve"

\* a dry run that counts nothing
dry_count_none(success_count_) == success_count_

\* line 95: the dry run counts the match
dry_count(success_count_) == success_count_ + 1

\* lines 58-95: one pass of the loop body, up to the opening of the sidecar
UnitLine(w) ==
  /\ pc = "processing"
  /\ unit[w].stage = "line"
  /\ unit[w].i <= Len(metadata_files[unit[w].task].lines)
  /\ LET u    == unit[w]
         f    == metadata_files[u.task]
         line == f.lines[u.i]
         act  == line_action(line)
         crate_name == f.file
         version == dict_get(json_loads(line).value, "vers")
         crate_file_path ==
           find_crate_file(crate_name, version, archives, sidecars)
     IN  IF act = "abort" THEN
           /\ results' = [results EXCEPT ![u.task] = <<0, 0>>]
           /\ unit' = [unit EXCEPT ![w] = IdleUnit]
           /\ outcome' = [outcome EXCEPT ![u.task][u.i] = act]
         ELSE IF act # "resolve" THEN
           /\ unit' = [unit EXCEPT ![w].i = @ + 1]
           /\ outcome' = [outcome EXCEPT ![u.task][u.i] = act]
           /\ UNCHANGED results
         ELSE IF crate_file_path = None THEN
           /\ unit' = [unit EXCEPT ![w].i = @ + 1, ![w].total_count = @ + 1]
           /\ outcome' = [outcome EXCEPT ![u.task][u.i] = "notfound"]
           /\ UNCHANGED results
         ELSE IF dry_run THEN
           /\ unit' = [unit EXCEPT ![w].i = @ + 1, ![w].total_count = @ + 1,
                                   ![w].success_count = dry_count(@)]
           /\ outcome' = [outcome EXCEPT ![u.task][u.i] = "counted"]
           /\ UNCHANGED results
         ELSE
           /\ unit' = [unit EXCEPT
                         ![w].total_count = @ + 1,
                         ![w].stage = "open",
                         ![w].path = metadata_output_path(crate_file_path,
                                                          crate_name, version)]
           /\ UNCHANGED <<results, outcome>>
  /\ UNCHANGED <<classVars, relocOnly, index_tree, archives, sidecars,
                 dry_run, pc, metadata_files, next_task, success_count,
                 total_versions, wlog, run, prev>>

\* the file system after open(path, 'w'): the file exists and is empty
opened(sidecars_, path) ==
  [q \in DOMAIN sidecars_ \cup {path} |->
     IF q = path THEN Truncated ELSE sidecars_[q]]

\* line 89: open(metadata_output_path, 'w') succeeds and truncates the file
UnitOpenOK(w) ==
  /\ pc = "processing"
  /\ unit[w].stage = "open"
  /\ sidecars' = opened(sidecars, unit[w].path)
  /\ unit' = [unit EXCEPT ![w].stage = "dump"]
  /\ UNCHANGED <<classVars, relocOnly, index_tree, archives, dry_run, pc,
                 metadata_files, next_task, results, success_count,
                 total_versions, wlog, outcome, run, prev>>

\* lines 89, 99-100: open raises OSError; the error is logged, success_count
\* is not incremented and the loop goes on
UnitOpenFail(w) ==
  /\ pc = "processing"
  /\ unit[w].stage = "open"
  /\ unit' = [unit EXCEPT ![w].stage = "line", ![w].i = @ + 1,
                          ![w].path = None]
  /\ outcome' = [outcome EXCEPT ![unit[w].task][unit[w].i] = "writefail"]
  /\ UNCHANGED <<classVars, relocOnly, index_tree, archives, sidecars,
                 dry_run, pc, metadata_files, next_task, results,
                 success_count, total_versions, wlog, run, prev>>

\* The texts a file can hold after one writer wrote `own` from offset 0:
\* `own` when the file was still empty; when another writer of the same
\* file wrote since this one's open, `own` or a mix of both texts.
written_texts(current, own) ==
  IF current = Truncated THEN {own} ELSE {own, Torn}

\* lines 90-92: json.dump and the close of the file, then success_count += 1
UnitDump(w) ==
  /\ pc = "processing"
  /\ unit[w].stage = "dump"
  /\ LET u        == unit[w]
         line     == metadata_files[u.task].lines[u.i]
         metadata == json_loads(line).value
     IN  /\ \E text \in written_texts(sidecars[u.path], json_dump(metadata)) :
               sidecars' = [sidecars EXCEPT ![u.path] = text]
         /\ wlog' = wlog \cup {[task |-> u.task, line |-> u.i,
                                path |-> u.path]}
         /\ outcome' = [outcome EXCEPT ![u.task][u.i] = "written"]
  /\ unit' = [unit EXCEPT ![w].stage = "line", ![w].i = @ + 1,
                          ![w].path = None,
                          ![w].success_count = @ + 1]
  /\ UNCHANGED <<classVars, relocOnly, index_tree, archives, dry_run, pc,
                 metadata_files, next_task, results, success_count,
                 total_versions, run, prev>>

\* line 102: return success_count, total_count
UnitReturn(w) ==
  /\ pc = "processing"
  /\ unit[w].stage = "line"
  /\ unit[w].i > Len(metadata_files[unit[w].task].lines)
  /\ results' = [results EXCEPT ![unit[w].task] =
                   <<unit[w].success_count, unit[w].total_count>>]
  /\ unit' = [unit EXCEPT ![w] = IdleUnit]
  /\ UNCHANGED <<classVars, relocOnly, index_tree, archives, sidecars,
                 dry_run, pc, metadata_files, next_task, success_count,
                 total_versions, wlog, outcome, run, prev>>

RECURSIVE SumField(_, _)
SumField(res, k) ==
  IF res = <<>> THEN 0
  ELSE res[Len(res)][k] + SumField(SubSeq(res, 1, Len(res) - 1), k)

\* lines 141-147: every result is in; the coordinator adds them up
Aggregate ==
  /\ pc = "processing"
  /\ \A t \in 1..Len(results) : results[t] # None
  /\ success_count' = SumField(results, 1)
  /\ total_versions' = SumField(results, 2)
  /\ pc' = "done"
  /\ UNCHANGED <<classVars, relocOnly, index_tree, archives, sidecars,
                 dry_run, metadata_files, next_task, unit, results, wlog,
                 outcome, run, prev>>

WriteFailures ==
  Cardinality({ti \in {<<t, i>> : t \in DOMAIN outcome, i \in 1..MaxLines} :
                 /\ ti[2] \in DOMAIN outcome[ti[1]]
                 /\ outcome[ti[1]][ti[2]] = "writefail"})

\* after a simulation the tool is started again, without --dry-run, on the
\* same index and mirror
IndexRerun ==
  /\ pc = "done"
  /\ run < MaxRuns
  /\ dry_run
  /\ prev' = [ran |-> TRUE, dry |-> dry_run, success |-> success_count,
              versions |-> total_versions, failures |-> WriteFailures,
              sidecars |-> sidecars]
  /\ run' = run + 1
  /\ dry_run' = FALSE
  /\ pc' = "walk"
  /\ metadata_files' = <<>>
  /\ next_task' = 1
  /\ results' = <<>>
  /\ success_count' = 0
  /\ total_versions' = 0
  /\ wlog' = {}
  /\ outcome' = <<>>
  /\ UNCHANGED <<classVars, relocOnly, index_tree, archives, sidecars, unit>>

IndexNext ==
  \/ Walk
  \/ \E w \in 1..Workers : UnitStart(w)
  \/ \E w \in 1..Workers : UnitLine(w)
  \/ \E w \in 1..Workers : UnitOpenOK(w)
  \/ \E w \in 1..Workers : UnitOpenFail(w)
  \/ \E w \in 1..Workers : UnitDump(w)
  \/ \E w \in 1..Workers : UnitReturn(w)
  \/ Aggregate
  \/ IndexRerun

SpecIndexer == IndexInit /\ [][IndexNext]_vars

\* ------------------------------------------------------------------------
\* Properties of the classifier
\* ------------------------------------------------------------------------
IsAsciiLetter(c) == c \in Range(ascii_uppercase) \cup Range(ascii_lowercase)

IsAsciiDigit(c) == c \in Range(ascii_digits)

\* the bucket the documented algorithm (spec 4.1) assigns to a file name
DocFirstLevel(f) ==
  IF f = <<>> THEN S_OTHER
  ELSE IF IsAsciiLetter(f[1]) THEN str_upper(f[1])
  ELSE IF IsAsciiDigit(f[1]) THEN S_0_9
  ELSE S_OTHER

DocChunkName(l, c) ==
  LET i  == CHOOSE j \in 1..26 : ascii_uppercase[j] = c
      lo == ((i - 1) \div 4) * 4 + 1
      hi == Min(lo + 3, 26)
  IN  <<l, ascii_uppercase[lo], "-", l, ascii_uppercase[hi]>>

DocSecondLevel(f) ==
  LET fl == DocFirstLevel(f)
  IN  IF fl = S_OTHER THEN S_OTHER
      ELSE IF fl = S_0_9 THEN
        IF f[1] \in {"0","1","2"} THEN <<"0","-","2">>
        ELSE IF f[1] \in {"3","4","5"} THEN <<"3","-","5">>
        ELSE <<"6","-","9">>
      ELSE IF Len(f) > 1 /\ IsAsciiLetter(f[2])
        THEN DocChunkName(fl[1], str_upper(f[2])[1])
        ELSE DocChunkName(fl[1], "A")

\* C1: get_target_directory is total: for every file name, the empty one
\* and those whose first or second character is no ASCII letter or digit
\* included, the call returns a path base/firstLevel/secondLevel and raises
\* nothing.
C1_Total ==
  cpc = "done" =>
    /\ target.exc = "none"
    /\ Len(target.path) = 3
    /\ target.path[1] = BaseDir
    /\ target.path[2] \in Range(first_levels)

\* C2: for every file name the call returns exactly the bucket of the
\* documented algorithm: first level the uppercased first letter, "0-9" for
\* a digit, "OTHER" otherwise; second level the chunk of 4 holding the
\* uppercased second letter (the first chunk for a one-character name or a
\* non-letter), the digit band holding the first character, or "OTHER".
C2_DocumentedBucket ==
  cpc = "done" =>
    target = Returned(<<BaseDir, DocFirstLevel(filename),
                        DocSecondLevel(filename)>>)

\* the four documented examples, cut to their first MaxNameLen characters
C2_Examples ==
  /\ get_target_directory(<<>>, BaseDir)
       = Returned(<<BaseDir, S_OTHER, S_OTHER>>)
  /\ get_target_directory(<<"7", "z">>, BaseDir)
       = Returned(<<BaseDir, S_0_9, <<"6","-","9">> >>)
  /\ get_target_directory(<<"A", "b">>, BaseDir)
       = Returned(<<BaseDir, <<"A">>, <<"A","A","-","A","D">> >>)
  /\ get_target_directory(<<"z", "y">>, BaseDir)
       = Returned(<<BaseDir, <<"Z">>, <<"Z","Y","-","Z","Z">> >>)

\* the ranges of a list of groups, laid end to end
RECURSIVE FlatRanges(_)
FlatRanges(groups) ==
  IF groups = <<>> THEN <<>>
  ELSE FlatRanges(SubSeq(groups, 1, Len(groups) - 1))
         \o groups[Len(groups)].range

\* C3: the table of get_letter_groups is a partition: under every first
\* letter each of A-Z lies in exactly one of its 7 groups (laid end to end
\* the groups give A..Z once, nothing else), the last group being the short
\* xY-xZ, and each digit 0-9 lies in exactly one of the bands 0-2, 3-5, 6-9.
C3_Partition ==
  letter_groups # <<>> =>
    /\ \A i \in 1..Len(ascii_uppercase) :
         /\ Len(letter_groups[<<ascii_uppercase[i]>>]) = 7
         /\ letter_groups[<<ascii_uppercase[i]>>][7].name
              = <<ascii_uppercase[i], "Y", "-", ascii_uppercase[i], "Z">>
         /\ FlatRanges(letter_groups[<<ascii_uppercase[i]>>]) = ascii_uppercase
         /\ \A k \in 1..7 :
              Len(letter_groups[<<ascii_uppercase[i]>>][k].range) >= 1
    /\ [k \in 1..Len(letter_groups[S_0_9]) |-> letter_groups[S_0_9][k].name]
         = << <<"0","-","2">>, <<"3","-","5">>, <<"6","-","9">> >>
    /\ FlatRanges(letter_groups[S_0_9])
         = [d \in 1..Len(ascii_digits) |-> <<ascii_digits[d]>>]

C3_Witness ==
  /\ cpc = "done"
  /\ filename = <<"z", "y">>
  /\ letter_groups # <<>>
  /\ target.path = <<BaseDir, <<"Z">>, <<"Z","Y","-","Z","Z">> >>

\* ------------------------------------------------------------------------
\* Properties of the relocator
\* ------------------------------------------------------------------------
\* files of the snapshot that left the top level and lie in their bucket
Relocated ==
  {i \in 1..Len(move_args) :
     /\ basename(move_args[i].file_path) \notin top_files
     /\ <<move_args[i].target_dir, basename(move_args[i].file_path)>>
          \in placed}

\* C4: in a normal-mode run every file of the snapshot gets exactly one
\* move attempt; an attempt relocates the file into its classified bucket
\* under its own name and counts as a success, or fails without stopping
\* the others; the run returns (successCount, totalCount) with
\* successCount <= totalCount, totalCount the snapshot size and
\* successCount the number of files relocated.
C4_OneAttemptEach ==
  (~dry_run /\ pc \in {"done", "raised"}) =>
    /\ Len(attempts) = Len(files)
    /\ \A i \in 1..Len(files) : attempts[i] = 1
    /\ pc = "done" =>
         /\ total_files = Cardinality(start.top)
         /\ success_count <= total_files
         /\ success_count = Cardinality(Relocated)
         /\ \A i \in 1..Len(files) :
              /\ move_args[i].target_dir
                   = get_target_directory(files[i], BaseDir).path
              /\ results[i] = "True" <=> i \in Relocated

\* C5: after a fully successful normal-mode run none of the snapshot's
\* files is left at the top level, and the next run enumerates and moves
\* no file and leaves the tree as it was.
C5_Idempotent ==
  /\ (pc = "done" /\ ~dry_run /\ success_count = total_files) =>
       Range(files) \cap top_files = {}
  /\ (run > 1 /\ prev.full) =>
       /\ files = <<>>
       /\ total_files = 0
       /\ success_count = 0
       /\ \A i \in 1..Len(attempts) : attempts[i] = 0
       /\ pc # "raised"
       /\ top_files = prev.top
       /\ dirs = prev.dirs
       /\ placed = prev.placed

C5_Witness ==
  /\ run = 2
  /\ prev.full
  /\ prev.total = MaxFiles
  /\ pc = "done"
  /\ Cardinality(placed) = MaxFiles
  /\ total_files = 0

\* every directory of the partition table
TableDirs ==
  UNION { {<<BaseDir, fl>>}
            \cup {<<BaseDir, fl, get_letter_groups[fl][k].name>> :
                    k \in 1..Len(get_letter_groups[fl])} :
          fl \in DOMAIN get_letter_groups }

\* C10: in a normal-mode run create_directories has made every directory
\* of the partition table before the first move is dispatched, so the
\* target directory of every executing move exists; a second call changes
\* nothing; a simulation run creates no directory.
C10_ProvisionedBeforeMoves ==
  /\ \A w \in DOMAIN worker :
       worker[w] # 0 => move_args[worker[w]].target_dir \in dirs
  /\ (~dry_run /\ pc \in {"moving", "done"}) => TableDirs \subseteq dirs
  /\ (start.ran /\ TableDirs \subseteq start.dirs) => dirs = start.dirs
  /\ (start.ran /\ dry_run) => dirs = start.dirs

C10_Witness ==
  /\ ~dry_run
  /\ start.ran
  /\ start.dirs = {}
  /\ \E w \in DOMAIN worker :
       /\ worker[w] # 0
       /\ move_args[worker[w]].target_dir
            = <<BaseDir, <<"A">>, <<"A","Q","-","A","T">> >>
       /\ move_args[worker[w]].target_dir \in dirs

\* ------------------------------------------------------------------------
\* Properties of the indexer
\* ------------------------------------------------------------------------
\* the line passes the structural filter and is no JSON
Malformed(line) == ~line.blank /\ line.open /\ line.close /\ ~line.valid

\* the line is a well-formed record with a version
Versioned(line) ==
  /\ ~line.blank /\ line.open /\ line.close /\ line.valid
  /\ \E j \in 1..Len(line.members) : line.members[j][1] = "vers"
  /\ LET last == CHOOSE j \in 1..Len(line.members) :
                   /\ line.members[j][1] = "vers"
                   /\ \A k \in (j + 1)..Len(line.members) :
                        line.members[k][1] # "vers"
     IN  line.members[last][2] \notin {None, <<>>}

\* the version of a well-formed record with a version
VersionOf(line) ==
  line.members[CHOOSE j \in 1..Len(line.members) :
                 /\ line.members[j][1] = "vers"
                 /\ \A k \in (j + 1)..Len(line.members) :
                      line.members[k][1] # "vers"][2]

\* the key/value pairs of a record: each key with its last value
PairsOf(members) ==
  {members[j] : j \in {k \in 1..Len(members) :
                         \A l \in (k + 1)..Len(members) :
                           members[l][1] # members[k][1]}}

ArchiveName(n, v) == n \o <<"-">> \o v \o DOT_CRATE

SidecarName(n, v) == n \o <<"-">> \o v \o DOT_METADATA_JSON

\* (packageName, version) of a logged write
PairOfWrite(a) ==
  <<metadata_files[a.task].file,
    VersionOf(metadata_files[a.task].lines[a.line])>>

\* C6: in a non-simulated run no two units write the same sidecar path, and
\* at most one sidecar write is performed per (packageName, version),
\* whatever the index tree and the interleaving.
C6_OneWritePerSidecar ==
  /\ \A a, b \in wlog : a.path = b.path => a.task = b.task
  /\ \A a, b \in wlog : PairOfWrite(a) = PairOfWrite(b) => a = b

\* C7: after a non-simulated run, for every record with version V of an
\* index file named N and every archive N-V.crate of the mirror tree, the
\* file N-V.metadata.json exists in the directory of that archive and holds
\* the key/value pairs of the record.
C7_RoundTrip ==
  (pc = "done" /\ ~dry_run) =>
    \A t \in 1..Len(metadata_files) :
      \A i \in 1..Len(metadata_files[t].lines) :
        LET f    == metadata_files[t]
            line == f.lines[i]
        IN  Versioned(line) =>
              \A a \in archives :
                a[2] = ArchiveName(f.file, VersionOf(line)) =>
                  LET sp == <<a[1], SidecarName(f.file, VersionOf(line))>>
                  IN  /\ sp \in DOMAIN sidecars
                      /\ sidecars[sp].kind = "json"
                      /\ PairsOf(sidecars[sp].members) = PairsOf(line.members)

\* C8, as claimed: a simulation writes no file and returns a success count
\* S; the normal run that follows on the same trees returns the success
\* count S and the same attempted count.
C8_SimulationExact ==
  /\ dry_run => (sidecars = <<>> /\ wlog = {})
  /\ (run > 1 /\ prev.dry /\ ~dry_run /\ pc = "done") =>
       /\ total_versions = prev.versions
       /\ success_count = prev.success

\* C8, amended: a simulation writes no file and returns a success count S;
\* the normal run that follows on the same trees returns the same attempted
\* count and the success count S less the number of records whose sidecar
\* could not be written, hence S when every write succeeds.
C8_SimulationUpToWriteFailures ==
  /\ dry_run => (sidecars = <<>> /\ wlog = {})
  /\ (run > 1 /\ prev.dry /\ ~dry_run /\ pc = "done") =>
       /\ total_versions = prev.versions
       /\ success_count + WriteFailures = prev.success

C8_Witness ==
  /\ run = 2
  /\ prev.dry
  /\ ~dry_run
  /\ pc = "done"
  /\ prev.success = 2
  /\ success_count = 2
  /\ Cardinality(wlog) = 2

\* lines of a unit with one of the given outcomes
CountOutcome(t, kinds) ==
  Cardinality({i \in 1..Len(outcome[t]) : outcome[t][i] \in kinds})

\* C9: a line that passes the structural filter and fails to parse is
\* skipped and not counted; every well-formed record with a version, in the
\* same file before or after it or in another file, is counted as attempted
\* and resolved against the mirror, and the counts returned are those of
\* the well-formed records alone.
C9_Isolation ==
  pc = "done" =>
    /\ \A t \in 1..Len(metadata_files) :
         LET f == metadata_files[t]
         IN  f.file \notin {N_git, N_config_json} =>
               /\ \A i \in 1..Len(f.lines) :
                    /\ Malformed(f.lines[i]) =>
                         outcome[t][i] = "skip_malformed"
                    /\ Versioned(f.lines[i]) =>
                         /\ outcome[t][i] \in
                              {"notfound", "counted", "written", "writefail"}
                         /\ outcome[t][i] = "notfound" <=>
                              ~\E a \in archives :
                                 a[2] = ArchiveName(f.file,
                                                    VersionOf(f.lines[i]))
                         /\ outcome[t][i] = "counted" => dry_run
                         /\ outcome[t][i] \in {"written", "writefail"}
                              => ~dry_run
                    /\ outcome[t][i]
                         \in {"notfound", "counted", "written", "writefail"}
                         => Versioned(f.lines[i])
               /\ results[t] =
                    << CountOutcome(t, {"counted", "written"}),
                       Cardinality({i \in 1..Len(f.lines) :
                                      Versioned(f.lines[i])}) >>
    /\ success_count = SumField(results, 1)
    /\ total_versions = SumField(results, 2)

C9_Witness ==
  /\ pc = "done"
  /\ ~dry_run
  /\ \E t \in 1..Len(metadata_files) :
       /\ metadata_files[t].lines = <<L_bad, L_recA>>
       /\ outcome[t] = <<"skip_malformed", "written">>
       /\ results[t] = <<1, 1>>
  /\ success_count = 1
  /\ total_versions = 1

====
